---- MODULE Spec2Model ----
(***************************************************************************)
(* ObservableWebSocketBridge (src/src/websocket-server-bridge.ts) and the  *)
(* protocol codec (websocket-protocol.ts) as a state machine.              *)
(*                                                                         *)
(* The bridge keeps three collections: streams (Map streamId -> config),   *)
(* subscriptions (Map streamId -> Map(connection -> Subscription)) and     *)
(* connections (Set).  The two outer Maps are sequences of <<key, value>>  *)
(* entries in insertion order (the order of the streams-list array).  The  *)
(* inner Maps and the connection Set are a function and a set: the order   *)
(* in which they are iterated shows only in the order of sends to          *)
(* different connections, and sent keeps one sequence per connection.      *)
(*                                                                         *)
(* readyState is a field of the connection objects, which the transport    *)
(* owns: every operation takes as input the value it reads there.          *)
(*                                                                         *)
(* The observer callbacks that handleSubscribe creates capture the inner   *)
(* Map that was current at that moment.  registerStream stores a new inner *)
(* Map for its stream id and unsubscribes nothing, so the Subscriptions    *)
(* held by a replaced Map stay attached to their producers while nothing   *)
(* in the bridge refers to them any more: the variable detached counts     *)
(* those that are still live, per (streamId, connection).  What such a     *)
(* Subscription later deletes from its replaced Map is read by nobody and  *)
(* is not kept.                                                            *)
(*                                                                         *)
(* The bridge is single-threaded and every operation runs to completion:   *)
(* an operation is one step, which leaves in last and sent what was called *)
(* and what it sent; the step Return gives control back to the event loop  *)
(* and drops that record before the next operation starts.                 *)
(*                                                                         *)
(* The timestamp field (Date.now()) of every frame is left out.            *)
(***************************************************************************)
EXTENDS Integers, Sequences, FiniteSets, TLC

\* ---------------------------------------------------------------- bounds
MaxSubs == 2

\* ------------------------------------------------------------ input sets
StreamIds == {"s1", "s2"}
Conns == {"c1", "c2", "c3"}
\* The connections that Spec and SpecFaults drive; the third object is there
\* for the integrations that build a new connection object per callback.
Driven == {"c1", "c2"}
Values == {1, 2}
Undefined == "undefined"
\* readyState: sendMessage compares it with 1 (OPEN) and treats every other
\* number alike; CLOSED stands for those.
OPEN == 1
CLOSED == 3
ReadyStates == {OPEN, CLOSED}

\* StreamConfig {streamId, name, description?, observable}: every stream id can
\* be registered with configuration A; s1 also with B, which has no description.
Configs ==
  { [streamId |-> s, name |-> "A", description |-> "about A", observable |-> "obsA"] : s \in StreamIds }
  \cup
  { [streamId |-> "s1", name |-> "B", description |-> Undefined, observable |-> "obsB"] }

\* Values a producer may pass to observer.error: an Error object and null.
ErrorObject == [kind |-> "Error", message |-> "boom"]
NullError == [kind |-> "null"]
ErrorValues == {ErrorObject, NullError}

\* Producer events: the three observer callbacks.
NextEvent(v) == [ev |-> "next", value |-> v]
ErrorEvent(e) == [ev |-> "error", error |-> e]
CompleteEvent == [ev |-> "complete"]
TerminalEvents == {CompleteEvent} \cup {ErrorEvent(e) : e \in ErrorValues}

\* What a producer may do synchronously inside observable.subscribe(): nothing
\* (interval), one value (a BehaviorSubject), values and completion (of(1, 2)),
\* completion alone (EMPTY), an error (throwError).
SyncRuns ==
  { << >>,
    << NextEvent(1) >>,
    << NextEvent(1), NextEvent(2), CompleteEvent >>,
    << CompleteEvent >>,
    << ErrorEvent(ErrorObject) >>,
    << ErrorEvent(NullError) >> }

\* ------------------------------------------------------- Map / Set values
MapHas(m, k) == \E i \in 1..Len(m) : m[i][1] = k
MapGet(m, k) == m[CHOOSE i \in 1..Len(m) : m[i][1] = k][2]
MapSet(m, k, v) ==
  IF MapHas(m, k)
  THEN [i \in 1..Len(m) |-> IF m[i][1] = k THEN <<k, v>> ELSE m[i]]
  ELSE Append(m, <<k, v>>)
MapDelete(m, k) == SelectSeq(m, LAMBDA e : e[1] # k)
MapKeys(m) == {m[i][1] : i \in 1..Len(m)}
MapValues(m) == {m[i][2] : i \in 1..Len(m)}
\* An inner Map as a function on its keys.
EmptyMap == << >>
Put(f, k, v) == [x \in (DOMAIN f) \cup {k} |-> IF x = k THEN v ELSE f[x]]
Remove(f, k) == [x \in (DOMAIN f) \ {k} |-> f[x]]

\* ------------------------------------------------------------------ state
VARIABLES
  streams,        \* Map streamId -> StreamConfig
  subscriptions,  \* Map streamId -> Map connection -> Subscription
  connections,    \* Set of connections
  detached,       \* live Subscriptions of replaced inner Maps, counted per pair
  sent,           \* per connection, the frames its send took during the operation
  last,           \* the operation that ran and its arguments (idle between operations)
  watch,          \* history of the pair Watched, see below
  faults,         \* what fails around the bridge: send of a connection, unsubscribe()
  socket,         \* the transport socket of the documented integration
  client          \* the WebSocketMarbleRenderer of a browser

bridge == <<streams, subscriptions, connections, detached, sent, last, watch>>
vars == <<streams, subscriptions, connections, detached, sent, last, watch,
          faults, socket, client>>

\* faults.send: the connections whose send throws when called; faults.cancel:
\* the pairs whose producer has a teardown that throws, so that unsubscribe()
\* of their live Subscription closes it and then throws.
NoFaults == [send |-> {}, cancel |-> {}]

\* The socket of the integration: "new" once accepted, "open" once its open
\* callback ran, "closed" once its close callback ran.
NewSocket == [state |-> "new"]

\* The renderer creates at most MaxSockets WebSockets, has at most MaxTimers
\* timers pending and sends at most MaxSent messages.
MaxSockets == 3
MaxTimers == 2
MaxSent == 2
\* WebSocket.readyState besides OPEN and CLOSED.
CONNECTING == 0
CLOSING == 2
\* this.ws and this.reconnectTimeoutId when undefined.
NoSocket == 0
NoTimer == 0
Timers == 1..MaxTimers

\* The renderer after its constructor.  sockets: the readyState of every
\* WebSocket it created, in the order of creation (ws is an index into it);
\* timers: the setTimeout calls that have neither fired nor been cleared;
\* outbox: what was passed to ws.send, with the socket it was sent on.  Four
\* fields record what the application did: disconnected, that disconnect() was
\* called; stopped, that it was called and connect() has not been called
\* since; quick, the streams subscribe() was called for while the socket was
\* still connecting; wanted, the streams a subscribe message was sent for and
\* unsubscribe() has not been called for since.
NewClient ==
  [ws |-> NoSocket, sockets |-> << >>, reconnectTimeoutId |-> NoTimer,
   timers |-> {}, isConnected |-> FALSE, outbox |-> << >>,
   disconnected |-> FALSE, stopped |-> FALSE, quick |-> {}, wanted |-> {}]

Pairs == StreamIds \X Conns

\* History is kept for one pair (the operations treat all pairs alike):
\* unsubscribed: an unsubscribe message of the pair was processed and no
\* subscribe of the pair accepted since; finished: a complete or error frame of
\* the pair was sent and no subscribe of the pair accepted since; informed:
\* the last accepted subscribe of the pair sent its stream-info frame.
Watched == <<"s1", "c1">>

\* ------------------------------------------------- protocol codec (inbound)
MessageTypes ==
  {"subscribe", "unsubscribe", "next", "error", "complete", "stream-info", "streams-list"}

\* The type guard taking next for a client type as well.
isClientMessageAlsoNext(msg) ==
  msg.type = "subscribe" \/ msg.type = "unsubscribe" \/ msg.type = "next"
isClientMessage(msg) == msg.type = "subscribe" \/ msg.type = "unsubscribe"
isServerMessage(msg) == ~isClientMessage(msg)

\* The text of a well-formed inbound message.
MessageText(type, streamId) ==
  "{\"type\":\"" \o type \o "\",\"streamId\":\"" \o streamId \o "\"}"

\* Texts a connection delivers: the two client types for every stream id; and,
\* naming s1, every server type and a type outside the protocol, the JSON text
\* null, and a text that is not JSON.
NotJson == "{not json"
NullText == "null"
ClientTypes == {"subscribe", "unsubscribe"}
ClientTexts == {MessageText(t, s) : t \in ClientTypes, s \in StreamIds}
OtherTexts ==
  {MessageText(t, "s1") : t \in (MessageTypes \ ClientTypes) \cup {"ping"}}
  \cup {NullText, NotJson}
MessageTexts == ClientTexts \cup OtherTexts

\* JSON.parse on the texts used here: [threw |-> TRUE] for a SyntaxError, else
\* the value (null, or an object with its type and streamId).
AllTypes == MessageTypes \cup {"ping"}
AllTexts == {MessageText(t, s) : t \in AllTypes, s \in StreamIds} \cup {NullText, NotJson}
ParseTable ==
  [text \in AllTexts |->
     IF text = NotJson THEN [threw |-> TRUE, isNull |-> FALSE]
     ELSE IF text = NullText THEN [threw |-> FALSE, isNull |-> TRUE]
     ELSE LET hit == CHOOSE p \in AllTypes \X StreamIds : MessageText(p[1], p[2]) = text
          IN [threw |-> FALSE, isNull |-> FALSE,
              value |-> [type |-> hit[1], streamId |-> hit[2]]]]
JsonParse(text) == ParseTable[text]

\* ------------------------------------------------ protocol codec (outbound)
StreamInfoMessage(streamId, config) ==
  [type |-> "stream-info", streamId |-> streamId, name |-> config.name,
   description |-> config.description]
NextMessage(streamId, value) == [type |-> "next", streamId |-> streamId, value |-> value]
ErrorMessage(streamId, text) == [type |-> "error", streamId |-> streamId, error |-> text]
CompleteMessage(streamId) == [type |-> "complete", streamId |-> streamId]
StreamsListMessage(strs) ==
  [type |-> "streams-list",
   streams |-> [i \in 1..Len(strs) |->
                  [streamId |-> strs[i][1], name |-> strs[i][2].name,
                   description |-> strs[i][2].description, active |-> TRUE]]]

\* JSON.stringify leaves out properties whose value is undefined (only
\* description can be).
DropUndefined(obj) ==
  IF "description" \in DOMAIN obj /\ obj.description = Undefined
  THEN [f \in (DOMAIN obj) \ {"description"} |-> obj[f]]
  ELSE obj
JsonStringify(msg) ==
  IF msg.type = "streams-list"
  THEN [msg EXCEPT !.streams = [i \in 1..Len(msg.streams) |-> DropUndefined(msg.streams[i])]]
  ELSE DropUndefined(msg)

\* error.toString(): defined for an Error object, a TypeError for null.
HasToString(e) == e.kind # "null"
ErrorToString(e) == e.kind \o ": " \o e.message

DataTypes == {"next", "error", "complete"}

\* ---------------------------------------------------------- sending frames
NoFrames == [c \in Conns |-> << >>]

\* sendMessage: ws.send(JSON.stringify(message)) when ws.readyState is OPEN, else
\* nothing.  wire: the frames sent so far in this step.
\* sendMessage without the readyState check.
sendMessageAlways(wire, ws, message, readyState) ==
  [wire EXCEPT ![ws] = Append(@, JsonStringify(message))]

\* sendMessage handing the frame to every connection's send.
sendMessageToAll(wire, ws, message, readyState) ==
  IF readyState = OPEN
  THEN [c \in Conns |-> Append(wire[c], JsonStringify(message))]
  ELSE wire

\* A send that throws is caught and logged: the frame is lost.
sendMessage(wire, ws, message, readyState) ==
  IF readyState = OPEN /\ ws \notin faults.send
  THEN [wire EXCEPT ![ws] = Append(@, JsonStringify(message))]
  ELSE wire

sendStreamsList(wire, ws, strs, readyState) ==
  sendMessage(wire, ws, StreamsListMessage(strs), readyState)

\* broadcastStreamsList: sendStreamsList for every member of connections;
\* readyStates gives the readyState of each.
broadcastStreamsList(conns, strs, readyStates) ==
  [c \in Conns |->
     IF c \in conns THEN sendStreamsList(NoFrames, c, strs, readyStates[c])[c] ELSE << >>]

\* ------------------------------------------------------- rxjs Subscription
\* A Subscription object: closed after unsubscribe() and after the producer's
\* error or complete.
LiveSubscription == [closed |-> FALSE]
ClosedSubscription == [closed |-> TRUE]

\* The observer handed to observable.subscribe in handleSubscribe: what one
\* producer event does.  wire: the frames sent so far and then; delete: whether
\* it reaches streamSubs.delete(ws); closed: whether the Subscription is closed
\* afterwards.  A TypeError thrown by error.toString() leaves the callback
\* before the send and the delete (rxjs reports it asynchronously).
\* The observer with a next callback that sends its frame twice.
ObserverDuplicating(wire, ws, streamId, event, readyState) ==
  CASE event.ev = "next" ->
         [wire |-> sendMessage(sendMessage(wire, ws, NextMessage(streamId, event.value),
                                           readyState),
                               ws, NextMessage(streamId, event.value), readyState),
          delete |-> FALSE, closed |-> FALSE]
    [] event.ev = "error" ->
         IF HasToString(event.error)
         THEN [wire |-> sendMessage(wire, ws,
                          ErrorMessage(streamId, ErrorToString(event.error)), readyState),
               delete |-> TRUE, closed |-> TRUE]
         ELSE [wire |-> wire, delete |-> FALSE, closed |-> TRUE]
    [] event.ev = "complete" ->
         [wire |-> sendMessage(wire, ws, CompleteMessage(streamId), readyState),
          delete |-> TRUE, closed |-> TRUE]

\* The observer with a send failure ending the subscription.
ObserverEndsOnSendFailure(wire, ws, streamId, event, readyState) ==
  CASE event.ev = "next" ->
         [wire |-> sendMessage(wire, ws, NextMessage(streamId, event.value), readyState),
          delete |-> FALSE, closed |-> (readyState = OPEN /\ ws \in faults.send)]
    [] event.ev = "error" ->
         IF HasToString(event.error)
         THEN [wire |-> sendMessage(wire, ws,
                          ErrorMessage(streamId, ErrorToString(event.error)), readyState),
               delete |-> TRUE, closed |-> TRUE]
         ELSE [wire |-> wire, delete |-> FALSE, closed |-> TRUE]
    [] event.ev = "complete" ->
         [wire |-> sendMessage(wire, ws, CompleteMessage(streamId), readyState),
          delete |-> TRUE, closed |-> TRUE]

Observer(wire, ws, streamId, event, readyState) ==
  CASE event.ev = "next" ->
         [wire |-> sendMessage(wire, ws, NextMessage(streamId, event.value), readyState),
          delete |-> FALSE, closed |-> FALSE]
    [] event.ev = "error" ->
         IF HasToString(event.error)
         THEN [wire |-> sendMessage(wire, ws,
                          ErrorMessage(streamId, ErrorToString(event.error)), readyState),
               delete |-> TRUE, closed |-> TRUE]
         ELSE [wire |-> wire, delete |-> FALSE, closed |-> TRUE]
    [] event.ev = "complete" ->
         [wire |-> sendMessage(wire, ws, CompleteMessage(streamId), readyState),
          delete |-> TRUE, closed |-> TRUE]

\* A run of events delivered one after the other to the same observer.
RECURSIVE ObserverRun(_, _, _, _, _)
ObserverRun(wire, ws, streamId, run, readyState) ==
  IF run = << >> THEN [wire |-> wire, delete |-> FALSE, closed |-> FALSE]
  ELSE LET first == Observer(wire, ws, streamId, Head(run), readyState)
           rest == ObserverRun(first.wire, ws, streamId, Tail(run), readyState)
       IN [wire |-> rest.wire,
           delete |-> first.delete \/ rest.delete,
           closed |-> first.closed \/ rest.closed]

\* ------------------------------------------------------------ introspection
\* getStreams: a copy of the streams Map.
getStreams == streams
getSubscriptionCount(streamId) ==
  IF MapHas(subscriptions, streamId)
  THEN Cardinality(DOMAIN MapGet(subscriptions, streamId)) ELSE 0
getConnectionCount == Cardinality(connections)

\* The matrix entry of the pair, if any.
HasEntry(streamId, ws) ==
  MapHas(subscriptions, streamId) /\ ws \in DOMAIN MapGet(subscriptions, streamId)
Entry(streamId, ws) == MapGet(subscriptions, streamId)[ws]
\* 1 if the matrix holds a live Subscription for the pair, else 0.
LiveIn(streamId, ws) ==
  IF HasEntry(streamId, ws) /\ ~Entry(streamId, ws).closed THEN 1 ELSE 0
\* Live producer attachments of the pair: the one the matrix holds, if live, and
\* those of replaced inner Maps.
LiveCount(streamId, ws) == detached[<<streamId, ws>>] + LiveIn(streamId, ws)

RECURSIVE SumOver(_, _)
SumOver(f, S) ==
  IF S = {} THEN 0 ELSE LET x == CHOOSE y \in S : TRUE IN f[x] + SumOver(f, S \ {x})
\* Subscription objects that the bridge or a producer still holds.
HeldSubscriptions ==
  SumOver(detached, Pairs)
  + SumOver([s \in StreamIds |-> getSubscriptionCount(s)], StreamIds)

\* --------------------------------------------------------------- initial
\* last: op, the operation; ws, streamId, message: its arguments (streamId of a
\* message: the one parsed from it); hit: whether it found what it names (the
\* stream registered, the connection in the set, the subscribe accepted, the
\* entry to unsubscribe present); ended: whether the producer terminated
\* during it; map: for a producer event, whether the Subscription is held by
\* the current inner Map of its stream or by a replaced one; reads: the
\* readyState the operation read on each connection ({}: it read none); run:
\* the producer events delivered during the operation; raised: whether the
\* operation raised an exception to its caller.
NoReads == [c \in Conns |-> {}]
NoOp == [op |-> "idle", ws |-> "-", streamId |-> "-", message |-> "-", map |-> "-",
         hit |-> FALSE, ended |-> FALSE, reads |-> NoReads, run |-> << >>,
         raised |-> FALSE]
\* What a broadcast reads: the readyState of every member of connections.
ReadsOf(conns, readyStates) == [c \in Conns |-> IF c \in conns THEN {readyStates[c]} ELSE {}]

NoHistory == [unsubscribed |-> FALSE, finished |-> FALSE, informed |-> FALSE]

Init ==
  /\ streams = << >>
  /\ subscriptions = << >>
  /\ connections = {}
  /\ detached = [p \in Pairs |-> 0]
  /\ sent = NoFrames
  /\ last = NoOp
  /\ watch = NoHistory
  /\ faults = NoFaults
  /\ socket = NewSocket
  /\ client = NewClient

Idle == last.op = "idle"

\* sub.unsubscribe() of the matrix entry of the pair throws: the Subscription
\* is live and its teardown throws (rxjs closes it, runs the teardown and
\* rethrows as UnsubscriptionError).
CancelThrows(streamId, ws) ==
  <<streamId, ws>> \in faults.cancel /\ LiveIn(streamId, ws) = 1

\* The frames of type next, error or complete for the pair among the frames fs.
DataFrames(fs, streamId, ws) ==
  {i \in 1..Len(fs[ws]) : fs[ws][i].type \in DataTypes /\ fs[ws][i].streamId = streamId}
TerminalFrames(fs, streamId, ws) ==
  {i \in DataFrames(fs, streamId, ws) : fs[ws][i].type \in {"error", "complete"}}

\* The stream-info frames for the pair among the frames fs.
InfoFrames(fs, streamId, ws) ==
  {i \in 1..Len(fs[ws]) : fs[ws][i].type = "stream-info" /\ fs[ws][i].streamId = streamId}

\* watch.finished after an operation that sent the frames fs.
FinishedAfter(fs, before) ==
  before \/ TerminalFrames(fs, Watched[1], Watched[2]) # {}

\* ------------------------------------------------------- public operations
\* registerStream broadcasting the list before it stores the stream.
registerStreamStaleList(config, readyStates) ==
  /\ Idle
  /\ streams' = MapSet(streams, config.streamId, config)
  /\ subscriptions' = MapSet(subscriptions, config.streamId, EmptyMap)
  /\ detached' = [p \in Pairs |->
                    IF p[1] = config.streamId
                    THEN detached[p] + LiveIn(p[1], p[2]) ELSE detached[p]]
  /\ sent' = broadcastStreamsList(connections, streams, readyStates)
  /\ last' = [NoOp EXCEPT !.op = "registerStream", !.streamId = config.streamId,
                          !.hit = MapHas(streams, config.streamId),
                          !.reads = ReadsOf(connections, readyStates)]
  /\ UNCHANGED <<connections, watch>>

registerStream(config, readyStates) ==
  /\ Idle
  /\ streams' = MapSet(streams, config.streamId, config)
  /\ subscriptions' = MapSet(subscriptions, config.streamId, EmptyMap)
  /\ detached' = [p \in Pairs |->
                    IF p[1] = config.streamId
                    THEN detached[p] + LiveIn(p[1], p[2]) ELSE detached[p]]
  /\ sent' = broadcastStreamsList(connections, streams', readyStates)
  /\ last' = [NoOp EXCEPT !.op = "registerStream", !.streamId = config.streamId,
                          !.hit = MapHas(streams, config.streamId),
                          !.reads = ReadsOf(connections, readyStates)]
  /\ UNCHANGED <<connections, watch>>

\* unregisterStream without this.subscriptions.delete(streamId).
unregisterStreamKeepsMap(streamId, readyStates) ==
  /\ Idle
  /\ subscriptions' =
       IF MapHas(subscriptions, streamId)
       THEN MapSet(subscriptions, streamId,
              [c \in DOMAIN MapGet(subscriptions, streamId) |-> ClosedSubscription])
       ELSE subscriptions
  /\ streams' = MapDelete(streams, streamId)
  /\ sent' = broadcastStreamsList(connections, streams', readyStates)
  /\ last' = [NoOp EXCEPT !.op = "unregisterStream", !.streamId = streamId,
                          !.hit = MapHas(streams, streamId),
                          !.reads = ReadsOf(connections, readyStates)]
  /\ UNCHANGED <<connections, detached, watch>>

\* sub.unsubscribe() closes every Subscription of the inner Map, which goes
\* away with them.  When one unsubscribe() throws, the forEach stops there and
\* the exception leaves unregisterStream: the entries visited so far are closed
\* and nothing is deleted or broadcast.  (The inner Map is visited in insertion
\* order, which the function does not keep: any set of entries that do not
\* throw may have come before the one that does.)
unregisterStream(streamId, readyStates) ==
  /\ Idle
  /\ IF \E c \in Conns : CancelThrows(streamId, c)
     THEN \E c \in {x \in Conns : CancelThrows(streamId, x)} :
          \E before \in SUBSET {x \in DOMAIN MapGet(subscriptions, streamId) :
                                  ~CancelThrows(streamId, x)} :
            /\ subscriptions' =
                 MapSet(subscriptions, streamId,
                        [x \in DOMAIN MapGet(subscriptions, streamId) |->
                           IF x \in before \cup {c} THEN ClosedSubscription
                           ELSE MapGet(subscriptions, streamId)[x]])
            /\ sent' = NoFrames
            /\ last' = [NoOp EXCEPT !.op = "unregisterStream", !.streamId = streamId,
                                    !.hit = MapHas(streams, streamId), !.raised = TRUE]
            /\ UNCHANGED <<streams, connections, detached, watch>>
     ELSE /\ subscriptions' = MapDelete(subscriptions, streamId)
          /\ streams' = MapDelete(streams, streamId)
          /\ sent' = broadcastStreamsList(connections, streams', readyStates)
          /\ last' = [NoOp EXCEPT !.op = "unregisterStream", !.streamId = streamId,
                                  !.hit = MapHas(streams, streamId),
                                  !.reads = ReadsOf(connections, readyStates)]
          /\ UNCHANGED <<connections, detached, watch>>

\* handleConnection sending the list to every member of the connection set.
handleConnectionBroadcasts(ws, readyState) ==
  /\ Idle
  /\ connections' = connections \cup {ws}
  /\ sent' = broadcastStreamsList(connections', streams, [c \in Conns |-> readyState])
  /\ last' = [NoOp EXCEPT !.op = "handleConnection", !.ws = ws,
                          !.hit = (ws \in connections),
                          !.reads = [NoReads EXCEPT ![ws] = {readyState}]]
  /\ UNCHANGED <<streams, subscriptions, detached, watch>>

handleConnection(ws, readyState) ==
  /\ Idle
  /\ connections' = connections \cup {ws}
  /\ sent' = sendStreamsList(NoFrames, ws, streams, readyState)
  /\ last' = [NoOp EXCEPT !.op = "handleConnection", !.ws = ws,
                          !.hit = (ws \in connections),
                          !.reads = [NoReads EXCEPT ![ws] = {readyState}]]
  /\ UNCHANGED <<streams, subscriptions, detached, watch>>

\* handleDisconnection cancelling and deleting the entries of every connection.
handleDisconnectionCancelsAll(ws) ==
  /\ Idle
  /\ connections' = connections \ {ws}
  /\ subscriptions' = [i \in 1..Len(subscriptions) |-> <<subscriptions[i][1], EmptyMap>>]
  /\ sent' = NoFrames
  /\ last' = [NoOp EXCEPT !.op = "handleDisconnection", !.ws = ws,
                          !.hit = (ws \in connections)]
  /\ UNCHANGED <<streams, detached, watch>>

\* The streams, in the order of the outer Map, whose unsubscribe() for ws throws.
ThrowingAt(ws) ==
  {i \in 1..Len(subscriptions) : CancelThrows(subscriptions[i][1], ws)}

\* sub.unsubscribe() closes the Subscription that each inner Map holds for ws,
\* and the entry is deleted.  When an unsubscribe() throws, the forEach over the
\* outer Map stops there and the exception leaves handleDisconnection: the
\* entries of the streams before it are deleted, its own is closed and kept,
\* those after it are not visited.
handleDisconnection(ws) ==
  /\ Idle
  /\ connections' = connections \ {ws}
  /\ IF ThrowingAt(ws) = {}
     THEN /\ subscriptions' = [i \in 1..Len(subscriptions) |->
                                 <<subscriptions[i][1], Remove(subscriptions[i][2], ws)>>]
          /\ last' = [NoOp EXCEPT !.op = "handleDisconnection", !.ws = ws,
                                  !.hit = (ws \in connections)]
     ELSE LET first == CHOOSE i \in ThrowingAt(ws) : \A j \in ThrowingAt(ws) : i <= j
          IN /\ subscriptions' =
                  [i \in 1..Len(subscriptions) |->
                     <<subscriptions[i][1],
                       IF i < first THEN Remove(subscriptions[i][2], ws)
                       ELSE IF i = first
                            THEN Put(subscriptions[i][2], ws, ClosedSubscription)
                            ELSE subscriptions[i][2]>>]
             /\ last' = [NoOp EXCEPT !.op = "handleDisconnection", !.ws = ws,
                                     !.hit = (ws \in connections), !.raised = TRUE]
  /\ sent' = NoFrames
  /\ UNCHANGED <<streams, detached, watch>>

\* A handleMessage call that returns without sending or changing anything.
Ignored(ws, text, streamId) ==
  /\ sent' = NoFrames
  /\ last' = [NoOp EXCEPT !.op = "handleMessage", !.ws = ws, !.message = text,
                          !.streamId = streamId]
  /\ UNCHANGED <<streams, subscriptions, connections, detached, watch>>

\* streamSubs.has(ws)
AlreadySubscribedNever(streamSubs, ws) == FALSE
AlreadySubscribed(streamSubs, ws) == ws \in DOMAIN streamSubs

\* The same reporting the unknown stream to the client in an error frame.
StreamNotFoundErrorFrame(ws, streamId, text) ==
  /\ sent' = sendMessage(NoFrames, ws, ErrorMessage(streamId, "not found"), OPEN)
  /\ last' = [NoOp EXCEPT !.op = "handleMessage", !.ws = ws, !.message = text,
                          !.streamId = streamId]
  /\ UNCHANGED <<streams, subscriptions, connections, detached, watch>>

\* handleSubscribe when this.streams.get(streamId) is undefined: warn, return.
StreamNotFound(ws, streamId, text) == Ignored(ws, text, streamId)

handleSubscribe(ws, streamId, text, run, readyState) ==
  IF ~MapHas(streams, streamId) THEN StreamNotFound(ws, streamId, text)
  ELSE IF ~MapHas(subscriptions, streamId) THEN Ignored(ws, text, streamId)
  ELSE LET config == MapGet(streams, streamId)
           streamSubs == MapGet(subscriptions, streamId)
           info == sendMessage(NoFrames, ws, StreamInfoMessage(streamId, config), readyState)
           sync == ObserverRun(info, ws, streamId, run, readyState)
           afterRun == IF sync.delete THEN Remove(streamSubs, ws) ELSE streamSubs
           subscription == IF sync.closed THEN ClosedSubscription ELSE LiveSubscription
       IN IF AlreadySubscribed(streamSubs, ws) THEN Ignored(ws, text, streamId)
          ELSE /\ HeldSubscriptions < MaxSubs
               /\ sent' = sync.wire
               /\ subscriptions' =
                    MapSet(subscriptions, streamId, Put(afterRun, ws, subscription))
               /\ last' = [NoOp EXCEPT !.op = "handleMessage", !.ws = ws,
                                      !.streamId = streamId, !.message = text,
                                      !.hit = TRUE, !.ended = sync.closed,
                                      !.reads = [NoReads EXCEPT ![ws] = {readyState}],
                                      !.run = run]
               /\ watch' = IF <<streamId, ws>> = Watched
                           THEN [unsubscribed |-> FALSE,
                                 finished |-> FinishedAfter(sent', FALSE),
                                 informed |-> InfoFrames(sent', streamId, ws) # {}]
                           ELSE watch
               /\ UNCHANGED <<streams, connections, detached>>

\* handleUnsubscribe removing every entry of the stream.
handleUnsubscribeWholeStream(ws, streamId, text) ==
  /\ subscriptions' =
       IF MapHas(subscriptions, streamId)
       THEN MapSet(subscriptions, streamId, EmptyMap)
       ELSE subscriptions
  /\ sent' = NoFrames
  /\ last' = [NoOp EXCEPT !.op = "handleMessage", !.ws = ws, !.streamId = streamId,
                          !.message = text, !.hit = HasEntry(streamId, ws)]
  /\ watch' = IF <<streamId, ws>> = Watched
              THEN [watch EXCEPT !.unsubscribed = TRUE] ELSE watch
  /\ UNCHANGED <<streams, connections, detached>>

\* sub.unsubscribe() closes the Subscription of the entry, which is deleted.
\* When unsubscribe() throws, the entry is closed and kept, and the try/catch of
\* handleMessage takes the exception.
handleUnsubscribe(ws, streamId, text) ==
  /\ subscriptions' =
       IF MapHas(subscriptions, streamId)
       THEN IF CancelThrows(streamId, ws)
            THEN MapSet(subscriptions, streamId,
                        Put(MapGet(subscriptions, streamId), ws, ClosedSubscription))
            ELSE MapSet(subscriptions, streamId, Remove(MapGet(subscriptions, streamId), ws))
       ELSE subscriptions
  /\ sent' = NoFrames
  /\ last' = [NoOp EXCEPT !.op = "handleMessage", !.ws = ws, !.streamId = streamId,
                          !.message = text, !.hit = HasEntry(streamId, ws)]
  /\ watch' = IF <<streamId, ws>> = Watched
              THEN [watch EXCEPT !.unsubscribed = TRUE] ELSE watch
  /\ UNCHANGED <<streams, connections, detached>>

\* switch (message.type) with the cases subscribe and unsubscribe and no default.
handleClientMessage(ws, message, text, run, readyState) ==
  IF message.type = "subscribe"
  THEN handleSubscribe(ws, message.streamId, text, run, readyState)
  ELSE IF message.type = "unsubscribe"
       THEN handleUnsubscribe(ws, message.streamId, text)
       ELSE Ignored(ws, text, message.streamId)

\* handleMessage without its try/catch: what JSON.parse or the type guard
\* throws reaches the caller.
handleMessageUncaught(ws, text, run, readyState) ==
  LET parsed == JsonParse(text)
  IN /\ Idle
     /\ IF parsed.threw \/ parsed.isNull
        THEN /\ sent' = NoFrames
             /\ last' = [NoOp EXCEPT !.op = "handleMessage", !.ws = ws, !.message = text,
                                     !.raised = TRUE]
             /\ UNCHANGED <<streams, subscriptions, connections, detached, watch>>
        ELSE IF ~isClientMessage(parsed.value)
             THEN Ignored(ws, text, "-")
             ELSE handleClientMessage(ws, parsed.value, text, run, readyState)

\* run: what the producer does synchronously if the message leads to
\* observable.subscribe; readyState: ws.readyState.
handleMessage(ws, text, run, readyState) ==
  LET parsed == JsonParse(text)
  IN /\ Idle
     /\ IF parsed.threw \/ parsed.isNull
        THEN Ignored(ws, text, "-")
        ELSE IF ~isClientMessage(parsed.value)
             THEN Ignored(ws, text, "-")
             ELSE handleClientMessage(ws, parsed.value, text, run, readyState)

\* ------------------------------------------------ producer events (async)
\* The readyState an observer callback reads: that of its connection, in
\* sendMessage; none when error.toString() throws before sendMessage is called.
ObserverReads(ws, event, readyState) ==
  IF event.ev = "error" /\ ~HasToString(event.error)
  THEN NoReads
  ELSE [NoReads EXCEPT ![ws] = {readyState}]

\* The producer delivers an event to the observer of a live Subscription that
\* the current inner Map of its stream holds.
ProducerEvent(streamId, ws, event, readyState) ==
  LET res == Observer(NoFrames, ws, streamId, event, readyState)
      streamSubs == MapGet(subscriptions, streamId)
  IN /\ Idle
     /\ LiveIn(streamId, ws) = 1
     /\ sent' = res.wire
     /\ subscriptions' =
          IF res.delete THEN MapSet(subscriptions, streamId, Remove(streamSubs, ws))
          ELSE IF res.closed
               THEN MapSet(subscriptions, streamId, Put(streamSubs, ws, ClosedSubscription))
               ELSE subscriptions
     /\ last' = [NoOp EXCEPT !.op = event.ev, !.ws = ws, !.streamId = streamId,
                            !.map = "current", !.hit = TRUE, !.ended = res.closed,
                            !.reads = ObserverReads(ws, event, readyState),
                            !.run = << event >>]
     /\ watch' = [watch EXCEPT !.finished = FinishedAfter(sent', @)]
     /\ UNCHANGED <<streams, connections, detached>>

\* The same for a live Subscription of a replaced inner Map: its observer
\* deletes from that Map, which the bridge no longer reads.
DetachedEvent(streamId, ws, event, readyState) ==
  LET res == Observer(NoFrames, ws, streamId, event, readyState)
  IN /\ Idle
     /\ detached[<<streamId, ws>>] > 0
     /\ sent' = res.wire
     /\ detached' = IF res.closed
                    THEN [detached EXCEPT ![<<streamId, ws>>] = @ - 1] ELSE detached
     /\ last' = [NoOp EXCEPT !.op = event.ev, !.ws = ws, !.streamId = streamId,
                            !.map = "replaced", !.hit = TRUE, !.ended = res.closed,
                            !.reads = ObserverReads(ws, event, readyState),
                            !.run = << event >>]
     /\ watch' = [watch EXCEPT !.finished = FinishedAfter(sent', @)]
     /\ UNCHANGED <<streams, subscriptions, connections>>

ProducerNext(streamId, ws, value, readyState) ==
  \/ ProducerEvent(streamId, ws, NextEvent(value), readyState)
  \/ DetachedEvent(streamId, ws, NextEvent(value), readyState)
ProducerError(streamId, ws, error, readyState) ==
  \/ ProducerEvent(streamId, ws, ErrorEvent(error), readyState)
  \/ DetachedEvent(streamId, ws, ErrorEvent(error), readyState)
ProducerComplete(streamId, ws, readyState) ==
  \/ ProducerEvent(streamId, ws, CompleteEvent, readyState)
  \/ DetachedEvent(streamId, ws, CompleteEvent, readyState)

\* ----------------------------------------------------------- event loop
\* The operation has returned: the next one starts from the bridge's state.
\* The history of the watched pair is dropped once the pair has no live
\* attachment left: no frame of the pair can follow until a subscribe of the
\* pair is accepted, which starts the history afresh.
Return ==
  /\ ~Idle
  /\ last' = NoOp
  /\ sent' = NoFrames
  /\ watch' = IF LiveCount(Watched[1], Watched[2]) = 0 THEN NoHistory ELSE watch
  /\ UNCHANGED <<streams, subscriptions, connections, detached>>

\* ------------------------------------------------------------------- next
\* The readyState of every connection as a broadcast reads it (only members of
\* connections are read).
BroadcastReads == {rs \in [Conns -> ReadyStates] : \A c \in Conns \ connections : rs[c] = OPEN}

\* Whether handleMessage(ws, text, ...) reaches observable.subscribe, and so
\* reads ws.readyState and lets the producer run.
ReachesSubscribe(ws, text) ==
  LET parsed == JsonParse(text)
  IN /\ ~parsed.threw /\ ~parsed.isNull
     /\ parsed.value.type = "subscribe"
     /\ MapHas(streams, parsed.value.streamId)
     /\ MapHas(subscriptions, parsed.value.streamId)
     /\ ~AlreadySubscribed(MapGet(subscriptions, parsed.value.streamId), ws)

\* What surrounds the bridge; its operations leave it alone.
env == <<faults, socket, client>>

\* The operations of the bridge and the events of its producers, with nothing
\* failing around it.
Next ==
  \/ \E config \in Configs, rs \in BroadcastReads :
        registerStream(config, rs) /\ UNCHANGED env
  \/ \E streamId \in StreamIds, rs \in BroadcastReads :
        unregisterStream(streamId, rs) /\ UNCHANGED env
  \/ \E ws \in Driven, rs \in ReadyStates : handleConnection(ws, rs) /\ UNCHANGED env
  \/ \E ws \in Driven : handleDisconnection(ws) /\ UNCHANGED env
  \/ \E ws \in Driven, text \in MessageTexts :
        /\ IF ReachesSubscribe(ws, text)
           THEN \E run \in SyncRuns, rs \in ReadyStates : handleMessage(ws, text, run, rs)
           ELSE handleMessage(ws, text, << >>, OPEN)
        /\ UNCHANGED env
  \/ \E p \in Pairs, value \in Values, rs \in ReadyStates :
        ProducerNext(p[1], p[2], value, rs) /\ UNCHANGED env
  \/ \E p \in Pairs, error \in ErrorValues, rs \in ReadyStates :
        ProducerError(p[1], p[2], error, rs) /\ UNCHANGED env
  \/ \E p \in Pairs, rs \in ReadyStates :
        ProducerComplete(p[1], p[2], rs) /\ UNCHANGED env
  \/ Return /\ UNCHANGED env

Spec == Init /\ [][Next]_vars

\* ------------------------------------------------- failures around the bridge
\* The connection whose send may throw and the pair whose teardown may throw.
FaultyConns == {"c1"}
FaultyPairs == {<<"s1", "c1">>}

\* ws.send starts to throw (the socket broke under an unchanged readyState) ...
SendBreaks(ws) ==
  /\ Idle
  /\ ws \notin faults.send
  /\ faults' = [faults EXCEPT !.send = @ \cup {ws}]
  /\ UNCHANGED <<bridge, socket, client>>

\* ... and stops throwing.
SendRecovers(ws) ==
  /\ Idle
  /\ ws \in faults.send
  /\ faults' = [faults EXCEPT !.send = @ \ {ws}]
  /\ UNCHANGED <<bridge, socket, client>>

\* The producer of the pair gets a teardown that throws.
TeardownBreaks(p) ==
  /\ Idle
  /\ p \notin faults.cancel
  /\ faults' = [faults EXCEPT !.cancel = @ \cup {p}]
  /\ UNCHANGED <<bridge, socket, client>>

\* Every connection is open when a broadcast reads it.
AllOpen == [c \in Conns |-> OPEN]

\* What a producer does inside observable.subscribe here.
FaultRuns == {<< >>, << NextEvent(1) >>}

\* The bridge with open connections, client messages only, and the failures.
NextFaults ==
  \/ \E config \in Configs : registerStream(config, AllOpen) /\ UNCHANGED env
  \/ \E streamId \in StreamIds : unregisterStream(streamId, AllOpen) /\ UNCHANGED env
  \/ \E ws \in Driven : handleConnection(ws, OPEN) /\ UNCHANGED env
  \/ \E ws \in Driven : handleDisconnection(ws) /\ UNCHANGED env
  \/ \E ws \in Driven, text \in ClientTexts, run \in FaultRuns :
        handleMessage(ws, text, run, OPEN) /\ UNCHANGED env
  \/ \E p \in Pairs, value \in Values :
        ProducerNext(p[1], p[2], value, OPEN) /\ UNCHANGED env
  \/ \E p \in Pairs : ProducerError(p[1], p[2], ErrorObject, OPEN) /\ UNCHANGED env
  \/ \E p \in Pairs : ProducerComplete(p[1], p[2], OPEN) /\ UNCHANGED env
  \/ Return /\ UNCHANGED env
  \/ \E ws \in FaultyConns : SendBreaks(ws)
  \/ \E ws \in FaultyConns : SendRecovers(ws)
  \/ \E p \in FaultyPairs : TeardownBreaks(p)

SpecFaults == Init /\ [][NextFaults]_vars

\* ------------------------------------------- the documented integration
\* README Quick Start (Bun.serve) and the Cloudflare example: every transport
\* callback of a socket builds a new {send, close, readyState} object and
\* passes it to the bridge.  The object is new: the bridge holds no reference
\* to it, as a member of connections, as a key of an inner Map or in the
\* observer of a live Subscription.
Fresh(ws) ==
  /\ ws \notin connections
  /\ \A s \in StreamIds : ~HasEntry(s, ws) /\ detached[<<s, ws>>] = 0

\* open(ws) / 'open' listener: handleConnection(new object).  readyState is
\* copied into the object when it is built, while the socket is open.  Bun
\* calls open before message and close; the Cloudflare example accepts the
\* socket before it adds its listeners, and nothing there makes an 'open'
\* event come before a 'message' or 'close' event, or come at all.
onOpen(ws) ==
  /\ socket.state = "new"
  /\ Fresh(ws)
  /\ handleConnection(ws, OPEN)
  /\ socket' = [socket EXCEPT !.state = "open"]
  /\ UNCHANGED <<faults, client>>

\* message(ws, message) / 'message' listener: handleMessage(new object, text).
\* The listener of the Cloudflare example parses the text itself first, inside
\* its own try/catch: a text that is not JSON never reaches the bridge there,
\* while the README passes every text on.
onMessage(ws, text, run) ==
  /\ socket.state # "closed"
  /\ Fresh(ws)
  /\ \/ handleMessage(ws, text, run, OPEN)
     \/ /\ JsonParse(text).threw
        /\ Idle
        /\ UNCHANGED bridge
  /\ UNCHANGED <<faults, socket, client>>

\* close(ws) / 'close' listener: handleDisconnection(new object).
onClose(ws) ==
  /\ socket.state # "closed"
  /\ Fresh(ws)
  /\ handleDisconnection(ws)
  /\ socket' = [socket EXCEPT !.state = "closed"]
  /\ UNCHANGED <<faults, client>>

\* One socket driven through the callbacks; the objects the bridge holds keep
\* the readyState they were built with, which is OPEN.
NextReadme ==
  \/ \E config \in Configs : registerStream(config, AllOpen) /\ UNCHANGED env
  \/ \E streamId \in StreamIds : unregisterStream(streamId, AllOpen) /\ UNCHANGED env
  \/ \E ws \in Conns : onOpen(ws)
  \/ \E ws \in Conns, text \in ClientTexts \cup {NotJson}, run \in FaultRuns :
        onMessage(ws, text, run)
  \/ \E ws \in Conns : onClose(ws)
  \/ \E p \in Pairs, value \in Values :
        ProducerNext(p[1], p[2], value, OPEN) /\ UNCHANGED env
  \/ \E p \in Pairs : ProducerError(p[1], p[2], ErrorObject, OPEN) /\ UNCHANGED env
  \/ \E p \in Pairs : ProducerComplete(p[1], p[2], OPEN) /\ UNCHANGED env
  \/ Return /\ UNCHANGED env

SpecReadme == Init /\ [][NextReadme]_vars

\* ------------------------------------------------------------ the client
\* WebSocketMarbleRenderer: its socket, its reconnect timer and what it sends.
\* reconnectDelay is the delay of the timer; a pending timer fires at some
\* later step.

\* this.ws is set and open.
IsOpen(c) == c.ws # NoSocket /\ c.sockets[c.ws] = OPEN

\* setTimeout: a timer that is not pending.
NewTimer(c) == CHOOSE t \in Timers \ c.timers : \A u \in Timers \ c.timers : t <= u

scheduleReconnect(c) ==
  IF c.reconnectTimeoutId # NoTimer THEN c
  ELSE [c EXCEPT !.reconnectTimeoutId = NewTimer(c), !.timers = @ \cup {NewTimer(c)}]

\* connect(): returns when the socket is open; else creates a WebSocket and
\* makes it this.ws, or schedules a reconnect when the constructor throws.
connectTo(c, throws) ==
  IF IsOpen(c) THEN c
  ELSE IF throws THEN scheduleReconnect(c)
  ELSE [c EXCEPT !.sockets = Append(@, CONNECTING), !.ws = Len(c.sockets) + 1]

\* Room for what connect() may create.
CanConnect(c) ==
  /\ Len(c.sockets) < MaxSockets
  /\ c.reconnectTimeoutId # NoTimer \/ Timers \ c.timers # {}

\* The application calls connect().
connect(throws) ==
  /\ CanConnect(client)
  /\ client' = [connectTo(client, throws) EXCEPT
                  !.quick = IF IsOpen(client) \/ throws THEN @ ELSE {},
                  !.stopped = FALSE]
  /\ UNCHANGED <<bridge, faults, socket>>

\* The callback of the reconnect timer.
TimerFires(t) ==
  /\ t \in client.timers
  /\ CanConnect([client EXCEPT !.timers = @ \ {t}, !.reconnectTimeoutId = NoTimer])
  /\ \E throws \in BOOLEAN :
       client' = connectTo([client EXCEPT !.timers = @ \ {t},
                                          !.reconnectTimeoutId = NoTimer], throws)
  /\ UNCHANGED <<bridge, faults, socket>>

\* A connecting socket opens: its onopen runs.
SocketOpens(w) ==
  /\ w \in DOMAIN client.sockets
  /\ client.sockets[w] = CONNECTING
  /\ client' = [client EXCEPT !.sockets[w] = OPEN,
                              !.isConnected = TRUE,
                              !.timers = @ \ {client.reconnectTimeoutId},
                              !.reconnectTimeoutId = NoTimer]
  /\ UNCHANGED <<bridge, faults, socket>>

\* A socket closes or fails to open: its onclose runs (after onerror, which
\* only logs).
SocketCloses(w) ==
  /\ w \in DOMAIN client.sockets
  /\ client.sockets[w] # CLOSED
  /\ client.reconnectTimeoutId # NoTimer \/ Timers \ client.timers # {}
  /\ client' = scheduleReconnect([client EXCEPT !.sockets[w] = CLOSED,
                                                !.isConnected = FALSE])
  /\ UNCHANGED <<bridge, faults, socket>>

\* subscribe(streamId) / unsubscribe(streamId): a warning and nothing else
\* unless the socket is open.
subscribe(streamId) ==
  /\ client' =
       IF IsOpen(client)
       THEN [client EXCEPT !.outbox =
               Append(@, [socket |-> client.ws, text |-> MessageText("subscribe", streamId)]),
                           !.wanted = @ \cup {streamId}]
       ELSE IF client.ws # NoSocket /\ client.sockets[client.ws] = CONNECTING
            THEN [client EXCEPT !.quick = @ \cup {streamId}]
            ELSE client
  /\ Len(client'.outbox) <= MaxSent
  /\ UNCHANGED <<bridge, faults, socket>>

unsubscribe(streamId) ==
  /\ client' =
       IF IsOpen(client)
       THEN [client EXCEPT !.outbox =
               Append(@, [socket |-> client.ws, text |-> MessageText("unsubscribe", streamId)]),
                           !.quick = @ \ {streamId}, !.wanted = @ \ {streamId}]
       ELSE [client EXCEPT !.quick = @ \ {streamId}, !.wanted = @ \ {streamId}]
  /\ Len(client'.outbox) <= MaxSent
  /\ UNCHANGED <<bridge, faults, socket>>

\* disconnect(): clears the timer, closes the socket (its handlers stay
\* attached) and forgets it.
disconnect ==
  /\ client' =
       [client EXCEPT
          !.timers = @ \ {client.reconnectTimeoutId},
          !.reconnectTimeoutId = NoTimer,
          !.sockets = IF client.ws # NoSocket /\ client.sockets[client.ws] # CLOSED
                      THEN [@ EXCEPT ![client.ws] = CLOSING] ELSE @,
          !.ws = NoSocket,
          !.isConnected = FALSE,
          !.disconnected = TRUE,
          !.stopped = TRUE]
  /\ UNCHANGED <<bridge, faults, socket>>

NextClient ==
  \/ \E throws \in BOOLEAN : connect(throws)
  \/ \E t \in Timers : TimerFires(t)
  \/ \E w \in 1..MaxSockets : SocketOpens(w)
  \/ \E w \in 1..MaxSockets : SocketCloses(w)
  \/ \E streamId \in StreamIds : subscribe(streamId)
  \/ \E streamId \in StreamIds : unsubscribe(streamId)
  \/ disconnect

SpecClient == Init /\ [][NextClient]_vars

\* ------------------------------------------------------------ the claims
\* The last operation was a subscribe / unsubscribe message of the pair.
SubscribeOf(l, streamId, ws) ==
  l.op = "handleMessage" /\ l.ws = ws /\ l.message = MessageText("subscribe", streamId)
UnsubscribeOf(l, streamId, ws) ==
  l.op = "handleMessage" /\ l.ws = ws /\ l.message = MessageText("unsubscribe", streamId)
ProducerOps == {"next", "error", "complete"}

\* C1: every (streamId, connection) pair has at most one live producer
\* attachment, whatever operations ran (registerStream of a registered id
\* included).
C1_AtMostOneLive == \A p \in Pairs : LiveCount(p[1], p[2]) <= 1

\* C2: when the producer of a subscription has completed or errored, during
\* the subscribe call or later, the matrix holds no entry for the pair and
\* getSubscriptionCount does not count the connection.
C2_TerminalRemoval ==
  (last.op \in ProducerOps \cup {"handleMessage"} /\ last.ended)
    => ~HasEntry(last.streamId, last.ws)

\* C3: when handleDisconnection(conn) has returned, no stream's count includes
\* conn and no producer attachment created for conn is still live.
C3_DisconnectionCleanup ==
  last.op = "handleDisconnection"
    => \A s \in StreamIds : ~HasEntry(s, last.ws) /\ LiveCount(s, last.ws) = 0

\* C4: when unregisterStream(id) has returned, getStreams() does not contain
\* id and every producer attachment created for id is cancelled; and while id
\* is not registered no next, error or complete frame carrying id is sent.
C4_UnregisterCleanup ==
  [][ /\ \A s \in StreamIds :
           (last'.op = "unregisterStream" /\ last'.streamId = s)
             => /\ ~MapHas(getStreams', s)
                /\ \A c \in Conns : LiveCount(s, c)' = 0
      /\ \A s \in {x \in StreamIds : ~MapHas(getStreams, x)} :
           \A c \in Conns : DataFrames(sent', s, c) = {} ]_vars

\* C5: after an unsubscribe message of the pair has been processed, no next,
\* error or complete frame of the pair is sent until a subscribe of the pair
\* is accepted.
C5_NoFrameAfterUnsubscribe ==
  [][ (watch.unsubscribed /\ ~(SubscribeOf(last', Watched[1], Watched[2]) /\ last'.hit))
        => DataFrames(sent', Watched[1], Watched[2]) = {} ]_vars

\* C6: registerStream of a registered id overwrites the configuration and
\* leaves the active subscriptions of the stream in the matrix, where
\* getSubscriptionCount counts them.
C6_ReRegistrationKeepsSubscriptions ==
  [][ \A config \in Configs :
        (last'.op = "registerStream" /\ last'.streamId = config.streamId
         /\ MapHas(streams, config.streamId) /\ MapGet(streams', config.streamId) = config)
          => /\ getSubscriptionCount(config.streamId)' = getSubscriptionCount(config.streamId)
             /\ \A c \in Conns :
                  HasEntry(config.streamId, c)
                    => HasEntry(config.streamId, c)'
                       /\ Entry(config.streamId, c)' = Entry(config.streamId, c) ]_vars

\* C7: every connection with an entry in the subscription matrix is a member
\* of the connection registry.
C7_SubscribersAreConnected ==
  \A p \in Pairs : HasEntry(p[1], p[2]) => p[2] \in connections

\* C8: the stream ids with an entry in the subscription matrix are exactly the
\* registered stream ids.
C8_MatrixKeysAreStreams == MapKeys(subscriptions) = MapKeys(streams)
C8_Witness ==
  /\ last.op = "unregisterStream" /\ last.hit
  /\ MapKeys(streams) = StreamIds \ {last.streamId}
  /\ MapKeys(subscriptions) = StreamIds \ {last.streamId}

\* C9: a subscribe message for a pair that has a matrix entry sends no frame
\* on any connection, creates no producer attachment and changes neither the
\* stream registry, the connection set nor the matrix.
C9_DuplicateSubscribeNoOp ==
  [][ \A p \in Pairs :
        (SubscribeOf(last', p[1], p[2]) /\ HasEntry(p[1], p[2]))
          => /\ sent' = NoFrames
             /\ UNCHANGED <<streams, subscriptions, connections, detached>> ]_vars
C9_Witness ==
  /\ SubscribeOf(last, "s1", "c1") /\ ~last.hit
  /\ HasEntry("s1", "c1") /\ ~Entry("s1", "c1").closed
  /\ connections = Driven
  /\ sent = NoFrames

\* C10: once a complete or error frame of a pair has been sent, no next,
\* complete or error frame of the pair is sent until a subscribe of the pair is
\* accepted.
C10_TerminalFinality ==
  [][ (watch.finished /\ ~(SubscribeOf(last', Watched[1], Watched[2]) /\ last'.hit))
        => DataFrames(sent', Watched[1], Watched[2]) = {} ]_vars

\* C11: every next, error or complete frame sent on a connection for a
\* subscription is preceded on that connection by the stream-info frame of that
\* subscription: in the step of the accepted subscribe the stream-info frame
\* comes before them, and in a later step the subscribe had sent it, whatever
\* the connection's readyState was when the subscribe arrived.
C11_StreamInfoFirst ==
  [][ DataFrames(sent', Watched[1], Watched[2]) # {}
        => IF SubscribeOf(last', Watched[1], Watched[2]) /\ last'.hit
           THEN /\ InfoFrames(sent', Watched[1], Watched[2]) # {}
                /\ \A i \in InfoFrames(sent', Watched[1], Watched[2]) :
                     \A j \in DataFrames(sent', Watched[1], Watched[2]) : i < j
           ELSE watch.informed ]_vars

\* C12: the stream-info, next, error and complete frames of the subscription
\* (S, C) are sent through C only: an operation on behalf of one connection
\* (its message, or a producer event of one of its subscriptions) sends nothing
\* to any other connection, and what it sends to C names S.
C12_PerConnectionIsolation ==
  last.op \in ProducerOps \cup {"handleMessage"}
    => /\ \A c \in Conns \ {last.ws} : sent[c] = << >>
       /\ \A i \in 1..Len(sent[last.ws]) :
            /\ sent[last.ws][i].type \in DataTypes \cup {"stream-info"}
            /\ sent[last.ws][i].streamId = last.streamId
C12_Witness ==
  /\ last.op = "next" /\ last.ws = "c1" /\ last.streamId = "s1"
  /\ LiveIn("s1", "c1") = 1 /\ LiveIn("s1", "c2") = 1
  /\ connections = Driven
  /\ Len(sent["c1"]) = 1 /\ sent["c1"][1].type = "next"
  /\ sent["c2"] = << >>

\* The values of the next events of a run, and of the next frames among the
\* frames fs, in their order.
RunValues(run) ==
  LET nexts == SelectSeq(run, LAMBDA e : e.ev = "next")
  IN [i \in 1..Len(nexts) |-> nexts[i].value]
FrameValues(fs) ==
  LET nexts == SelectSeq(fs, LAMBDA f : f.type = "next")
  IN [i \in 1..Len(nexts) |-> nexts[i].value]

\* C13: while the connection is open, the next frames an operation sends for
\* a subscription carry exactly the values the producer emitted to it during
\* the operation, one frame per emission and in the same order, and a terminal
\* frame comes after all of them.  (Operations run one after the other, each
\* handing its frames to send before it returns.)
C13_OrderPreserved ==
  ((last.op \in ProducerOps \/ (SubscribeOf(last, last.streamId, last.ws) /\ last.hit))
   /\ last.reads[last.ws] = {OPEN})
    => /\ FrameValues(sent[last.ws]) = RunValues(last.run)
       /\ \A i \in TerminalFrames(sent, last.streamId, last.ws) :
            /\ i = Len(sent[last.ws])
            /\ \A j \in DataFrames(sent, last.streamId, last.ws) : j <= i
C13_Witness ==
  /\ SubscribeOf(last, "s1", "c1") /\ last.hit
  /\ last.reads["c1"] = {OPEN}
  /\ last.run = << NextEvent(1), NextEvent(2), CompleteEvent >>
  /\ FrameValues(sent["c1"]) = << 1, 2 >>
  /\ sent["c1"][Len(sent["c1"])].type = "complete"

\* The frames fs hold for connection c exactly one frame, a streams-list whose
\* entries are the streams registered in strs, one entry per stream.
OneCatalog(fs, c, strs) ==
  /\ Len(fs[c]) = 1
  /\ fs[c][1].type = "streams-list"
  /\ Len(fs[c][1].streams) = Len(strs)
  /\ \A i \in 1..Len(strs) :
       /\ fs[c][1].streams[i].streamId = strs[i][1]
       /\ fs[c][1].streams[i].name = strs[i][2].name
       /\ fs[c][1].streams[i].active
  /\ {fs[c][1].streams[i].streamId : i \in 1..Len(strs)} = MapKeys(strs)

\* C14: when registerStream, or unregisterStream of a registered id, returns,
\* every connection of the connection set that is open has been sent one
\* streams-list frame listing exactly the streams registered after the
\* operation (the registered stream in it, the unregistered one not), whatever
\* the connections are subscribed to.
C14_CatalogBroadcast ==
  (last.op = "registerStream" \/ (last.op = "unregisterStream" /\ last.hit))
    => /\ \A c \in connections : last.reads[c] = {OPEN} => OneCatalog(sent, c, streams)
       /\ (last.op = "registerStream") = MapHas(streams, last.streamId)
C14_Witness ==
  /\ last.op = "registerStream" /\ last.streamId = "s2"
  /\ connections = Driven
  /\ \A c \in Driven : last.reads[c] = {OPEN}
  /\ LiveIn("s1", "c1") = 1 /\ ~HasEntry("s1", "c2")
  /\ MapKeys(streams) = StreamIds
  /\ \A c \in Driven : Len(sent[c]) = 1 /\ Len(sent[c][1].streams) = 2

\* C15 as stated: handleConnection(conn) adds conn to the connection set and
\* sends to conn, and to no other connection, one streams-list frame listing
\* exactly the streams registered at that moment; it creates no subscription.
C15_ConnectionAlwaysGetsCatalog ==
  [][ \A ws \in Conns :
        (last'.op = "handleConnection" /\ last'.ws = ws)
          => /\ connections' = connections \cup {ws}
             /\ OneCatalog(sent', ws, streams)
             /\ \A c \in Conns \ {ws} : sent'[c] = << >>
             /\ UNCHANGED <<streams, subscriptions, detached>> ]_vars

\* C15 amended: handleConnection(conn) adds conn to the connection set; if conn
\* is open it sends to conn one streams-list frame listing exactly the streams
\* registered at that moment, and if conn is not open it sends conn nothing; it
\* sends nothing to any other connection and creates no subscription.
C15_ConnectionGetsCatalogIfOpen ==
  [][ \A ws \in Conns :
        (last'.op = "handleConnection" /\ last'.ws = ws)
          => /\ connections' = connections \cup {ws}
             /\ IF last'.reads[ws] = {OPEN}
                THEN OneCatalog(sent', ws, streams)
                ELSE sent'[ws] = << >>
             /\ \A c \in Conns \ {ws} : sent'[c] = << >>
             /\ UNCHANGED <<streams, subscriptions, detached>> ]_vars
C15_Witness ==
  /\ last.op = "handleConnection" /\ last.ws = "c2" /\ ~last.hit
  /\ last.reads["c2"] = {OPEN}
  /\ connections = Driven
  /\ MapKeys(streams) = StreamIds
  /\ Len(sent["c2"]) = 1 /\ Len(sent["c2"][1].streams) = 2
  /\ sent["c1"] = << >>

\* C16: unregisterStream(streamId) of a streamId that is not registered is a
\* no-op: stream registry, connection set and subscription matrix are
\* unchanged and no frame is sent to any connection.
C16_UnregisterUnknownNoOp ==
  [][ \A s \in StreamIds :
        (last'.op = "unregisterStream" /\ last'.streamId = s /\ ~MapHas(streams, s))
          => /\ sent' = NoFrames
             /\ UNCHANGED <<streams, subscriptions, connections, detached>> ]_vars

\* C17: handleMessage(conn, text) with a text that is not JSON, or whose type
\* is a server type or any other type than subscribe and unsubscribe (or that
\* is no object at all), sends no frame on any connection, changes neither the
\* stream registry, the connection set nor the subscription matrix, and
\* returns normally to the caller.
C17_MalformedInputIgnored ==
  [][ (last'.op = "handleMessage" /\ last'.message \in OtherTexts)
        => /\ sent' = NoFrames
           /\ ~last'.raised
           /\ UNCHANGED <<streams, subscriptions, connections, detached>> ]_vars
C17_Witness ==
  /\ last.op = "handleMessage" /\ last.ws = "c1" /\ last.message = NotJson
  /\ ~last.raised
  /\ "c1" \in connections
  /\ LiveIn("s1", "c1") = 1
  /\ sent = NoFrames

\* C18: a subscribe message naming a streamId that is not registered sends no
\* frame (no stream-info, no error frame), creates no producer attachment and
\* changes no state of the relay.
C18_SubscribeUnknownStream ==
  [][ \A p \in Pairs :
        (SubscribeOf(last', p[1], p[2]) /\ ~MapHas(streams, p[1]))
          => /\ sent' = NoFrames
             /\ ~last'.hit
             /\ UNCHANGED <<streams, subscriptions, connections, detached>> ]_vars
C18_Witness ==
  /\ SubscribeOf(last, "s2", "c1") /\ ~last.hit
  /\ ~MapHas(streams, "s2") /\ MapHas(streams, "s1")
  /\ "c1" \in connections
  /\ sent = NoFrames
  /\ \A p \in Pairs : LiveCount(p[1], p[2]) = 0

\* C19: an unsubscribe message sends no frame to any connection; when the pair
\* has a matrix entry, that subscription is cancelled and exactly that entry
\* removed, all other entries, the stream registry and the connection set
\* staying as they were; when the pair has none (unknown stream, or pair not
\* subscribed) nothing changes.
C19_UnsubscribeRemovesOneEntry ==
  [][ \A p \in Pairs :
        UnsubscribeOf(last', p[1], p[2])
          => /\ sent' = NoFrames
             /\ UNCHANGED <<streams, connections, detached>>
             /\ IF HasEntry(p[1], p[2])
                THEN /\ ~HasEntry(p[1], p[2])'
                     /\ LiveIn(p[1], p[2])' = 0
                     /\ MapKeys(subscriptions') = MapKeys(subscriptions)
                     /\ \A q \in Pairs \ {p} :
                          /\ HasEntry(q[1], q[2])' = HasEntry(q[1], q[2])
                          /\ HasEntry(q[1], q[2]) => Entry(q[1], q[2])' = Entry(q[1], q[2])
                ELSE subscriptions' = subscriptions ]_vars
C19_Witness ==
  /\ UnsubscribeOf(last, "s1", "c1") /\ last.hit
  /\ ~HasEntry("s1", "c1")
  /\ LiveIn("s1", "c2") = 1
  /\ connections = Driven
  /\ sent = NoFrames

\* C20: send is invoked on a connection only when the operation read it open;
\* a frame produced while the connection is not open is dropped: a later
\* producer event hands send its own frame and nothing kept from before, and
\* the subscription whose next frame was dropped stays attached.
C20_SendDiscipline ==
  [][ /\ \A c \in Conns : last'.reads[c] # {OPEN} => sent'[c] = << >>
      /\ last'.op \in ProducerOps => Len(sent'[last'.ws]) <= 1
      /\ (last'.op = "next" /\ last'.reads[last'.ws] # {OPEN})
           => UNCHANGED <<subscriptions, detached>> ]_vars
C20_Witness ==
  /\ last.op = "next" /\ last.ws = "c1" /\ last.streamId = "s1"
  /\ last.map = "current"
  /\ last.reads["c1"] = {CLOSED}
  /\ "c1" \in connections
  /\ sent = NoFrames
  /\ LiveIn("s1", "c1") = 1

\* C30: when the producer of a subscription that the matrix holds errors,
\* whatever value it raises (null included), exactly one error frame is sent
\* to the subscribed connection if it is open (none if it is not), and the
\* matrix entry of the subscription is removed.
C30_ErrorFraming ==
  (last.op = "error" /\ last.map = "current")
    => /\ IF last.reads[last.ws] = {OPEN}
          THEN /\ Len(sent[last.ws]) = 1
               /\ sent[last.ws][1].type = "error"
               /\ sent[last.ws][1].streamId = last.streamId
          ELSE sent[last.ws] = << >>
       /\ ~HasEntry(last.streamId, last.ws)

\* C23: when the producer attachment of the subscription (S, C1) errors,
\* whatever value it raises, the error frame of S is sent to C1 (one frame when
\* C1 is read open) and to no other connection, the matrix entry of (S, C1) is
\* removed and no other entry is removed or changed: the subscriptions of other
\* connections to S and of C1 to other streams, the stream registry and the
\* connection set stay as they were.
C23_ErrorIsolation ==
  [][ \A p \in Pairs :
        (last'.op = "error" /\ last'.streamId = p[1] /\ last'.ws = p[2])
          => /\ \A c \in Conns \ {p[2]} : sent'[c] = << >>
             /\ \A i \in 1..Len(sent'[p[2]]) :
                  sent'[p[2]][i].type = "error" /\ sent'[p[2]][i].streamId = p[1]
             /\ last'.reads[p[2]] = {OPEN} => Len(sent'[p[2]]) = 1
             /\ last'.map = "current" => ~HasEntry(p[1], p[2])'
             /\ MapKeys(subscriptions') = MapKeys(subscriptions)
             /\ \A q \in Pairs \ {p} :
                  /\ HasEntry(q[1], q[2])' = HasEntry(q[1], q[2])
                  /\ HasEntry(q[1], q[2]) => Entry(q[1], q[2])' = Entry(q[1], q[2])
             /\ UNCHANGED <<streams, connections>> ]_vars

\* C25: handleDisconnection(conn) for a connection that is not in the
\* connection set and has no matrix entry changes nothing: connection count,
\* stream registry and subscription matrix stay as they were, no subscription of
\* another connection is cancelled and no frame is sent.
C25_DisconnectUnknownNoOp ==
  [][ \A ws \in Conns :
        (last'.op = "handleDisconnection" /\ last'.ws = ws
         /\ ws \notin connections /\ \A s \in StreamIds : ~HasEntry(s, ws))
          => /\ getConnectionCount' = getConnectionCount
             /\ sent' = NoFrames
             /\ \A p \in Pairs : LiveCount(p[1], p[2])' = LiveCount(p[1], p[2])
             /\ UNCHANGED <<streams, subscriptions, connections>> ]_vars
C25_Witness ==
  /\ last.op = "handleDisconnection" /\ last.ws = "c2" /\ ~last.hit
  /\ connections = {"c1"}
  /\ LiveIn("s1", "c1") = 1
  /\ \A s \in StreamIds : ~HasEntry(s, "c2")
  /\ sent = NoFrames

\* C24: for the message that handleMessage parsed, whatever its type (one of
\* the seven or another), exactly one of isClientMessage and isServerMessage is
\* true, isClientMessage is true exactly for subscribe and unsubscribe, and the
\* message reached handleClientMessage only if isClientMessage is true.
C24_CodecPartition ==
  (last.op = "handleMessage" /\ ~JsonParse(last.message).threw
   /\ ~JsonParse(last.message).isNull)
    => LET msg == JsonParse(last.message).value
       IN /\ isClientMessage(msg) # isServerMessage(msg)
          /\ isClientMessage(msg) = (msg.type \in {"subscribe", "unsubscribe"})
          /\ (last.streamId # "-") = (msg.type \in {"subscribe", "unsubscribe"})
C24_Witness ==
  /\ last.op = "handleMessage" /\ last.ws = "c1"
  /\ last.message = MessageText("ping", "s1")
  /\ last.streamId = "-"
  /\ isServerMessage(JsonParse(last.message).value)
  /\ MapHas(streams, "s1") /\ "c1" \in connections

\* C21: when the send of a connection throws while a next frame is forwarded,
\* nothing is raised, the matrix is left as it was with the entry live, and no
\* frame goes out; a next event of the same subscription while send works is
\* forwarded as one next frame.  The live subscriptions of a pair get fewer
\* only by an unsubscribe message of the pair, the disconnection of its
\* connection, the unregistration of its stream or a terminal event of its
\* producer.
C21_SendFailureAbsorbed ==
  [][ /\ \A p \in Pairs :
           (last'.op = "next" /\ last'.streamId = p[1] /\ last'.ws = p[2]
              /\ last'.map = "current" /\ last'.reads[p[2]] = {OPEN})
             => /\ ~last'.raised
                /\ subscriptions' = subscriptions
                /\ LiveIn(p[1], p[2])' = 1
                /\ sent'[p[2]] =
                     IF p[2] \in faults.send THEN << >>
                     ELSE << JsonStringify(NextMessage(p[1], last'.run[1].value)) >>
      /\ \A p \in Pairs :
           LiveCount(p[1], p[2])' < LiveCount(p[1], p[2])
             => \/ UnsubscribeOf(last', p[1], p[2])
                \/ last'.op = "handleDisconnection" /\ last'.ws = p[2]
                \/ last'.op = "unregisterStream" /\ last'.streamId = p[1]
                \/ last'.op \in {"error", "complete"}
                     /\ last'.streamId = p[1] /\ last'.ws = p[2]
    ]_vars

\* A next event met a send that throws: nothing sent, nothing raised, the
\* subscription still live in the matrix.
C21_Witness ==
  /\ last.op = "next" /\ last.map = "current"
  /\ last.ws \in faults.send /\ last.reads[last.ws] = {OPEN}
  /\ sent[last.ws] = << >>
  /\ ~last.raised
  /\ LiveIn(last.streamId, last.ws) = 1

\* C22: no operation of the bridge raises to its caller, and after
\* unregisterStream the stream has no inner Map and no live subscription in
\* the matrix, after handleDisconnection the connection has no entry in any
\* inner Map, whatever failed on the way.
C22_NothingEscapes ==
  /\ ~last.raised
  /\ last.op = "unregisterStream"
       => /\ ~MapHas(subscriptions, last.streamId)
          /\ ~MapHas(streams, last.streamId)
          /\ \A c \in Conns : LiveIn(last.streamId, c) = 0
  /\ last.op = "handleDisconnection"
       => \A s \in StreamIds : ~HasEntry(s, last.ws)

\* C26: once the close callback of the socket has called handleDisconnection,
\* the bridge counts no connection (the socket is the only one) and no inner
\* Map holds a live subscription.
C26_CloseCleansUp ==
  socket.state = "closed"
    => /\ getConnectionCount = 0
       /\ \A p \in Pairs : LiveIn(p[1], p[2]) = 0

\* C27: the socket has at most one live subscription per stream in the matrix,
\* and after an unsubscribe message of the socket for a stream the matrix holds
\* no live subscription of the stream (the socket is the only client).
C27_UnsubscribeCancels ==
  /\ \A s \in StreamIds : Cardinality({c \in Conns : LiveIn(s, c) = 1}) <= 1
  /\ \A s \in StreamIds, c \in Conns :
       UnsubscribeOf(last, s, c) => \A d \in Conns : LiveIn(s, d) = 0

\* C28: once the socket of the renderer is open, a subscribe message has been
\* sent on it for every stream that subscribe() was called for while the
\* socket was connecting, as the quick start does right after connect().
C28_QuickStartSubscribes ==
  IsOpen(client)
    => \A s \in client.quick :
         \E i \in 1..Len(client.outbox) :
           client.outbox[i] = [socket |-> client.ws, text |-> MessageText("subscribe", s)]

\* C29: at most one reconnect timer is pending, and while disconnect() has not
\* been called a closed socket of the renderer has a reconnect timer pending.
C29_AutoReconnect ==
  /\ Cardinality(client.timers) <= 1
  /\ (~client.disconnected /\ client.ws # NoSocket /\ client.sockets[client.ws] = CLOSED)
       => client.reconnectTimeoutId \in client.timers

\* C31: a subscribe message of a pair whose stream is registered and which has
\* no live subscription in the matrix (none yet, or the earlier one ended with
\* a complete or error event of the producer, during the subscribe call or
\* later) is accepted: a producer attachment is created and, the connection
\* being open, a stream-info frame is sent to it.
C31_ResubscribeAfterTerminal ==
  [][ \A p \in Pairs :
        (SubscribeOf(last', p[1], p[2])
           /\ MapHas(streams, p[1]) /\ MapHas(subscriptions, p[1])
           /\ LiveIn(p[1], p[2]) = 0)
          => /\ last'.hit
             /\ last'.reads[p[2]] = {OPEN} => InfoFrames(sent', p[1], p[2]) # {} ]_vars

\* C32: after disconnect(), and until the application calls connect() again,
\* no reconnect timer is pending and the renderer creates no WebSocket,
\* whenever the close event of the closed socket is delivered.
C32_DisconnectIsFinal ==
  [][ client'.stopped
        => /\ client'.timers = {}
           /\ client.stopped => Len(client'.sockets) = Len(client.sockets) ]_vars

\* The WebSockets of the renderer that are connecting or open.
LiveSockets(c) == {w \in DOMAIN c.sockets : c.sockets[w] \in {CONNECTING, OPEN}}

\* C33: at most one WebSocket of the renderer is connecting or open, and the
\* open or close event of a socket that is not this.ws neither changes
\* isConnected nor touches the reconnect timer.
C33_SingleSocket ==
  [][ /\ Cardinality(LiveSockets(client')) <= 1
      /\ \A w \in DOMAIN client.sockets :
           (client'.sockets[w] # client.sockets[w]
              /\ client'.sockets[w] \in {OPEN, CLOSED} /\ w # client.ws)
             => /\ client'.isConnected = client.isConnected
                /\ client'.timers = client.timers
                /\ client'.reconnectTimeoutId = client.reconnectTimeoutId ]_vars

\* C34: when the socket of the renderer is open, a subscribe message has been
\* sent on that socket for every stream the renderer subscribed to and has not
\* unsubscribed from, so that the bridge, which creates subscriptions only on
\* subscribe messages, relays those streams to the new connection.
C34_SubscriptionsSurviveReconnect ==
  IsOpen(client)
    => \A s \in client.wanted :
         \E i \in 1..Len(client.outbox) :
           client.outbox[i] = [socket |-> client.ws, text |-> MessageText("subscribe", s)]

====
